---- MODULE Spec2Model ----
(***************************************************************************)
(* A model of the finite-state-machine runtime of src/src/StateMachine.js. *)
(*                                                                         *)
(* The machine facade (StateMachine.js) is translated operation by         *)
(* operation.  Two collaborators it imports, ./Transition (the lifecycle   *)
(* of one in-flight transition) and ./utils/ValueMap (the table            *)
(* container), are modelled from the specification's sections 3, 4.2 and   *)
(* 4.4.                                                                    *)
(*                                                                         *)
(* Every API operation is a function over the machine record               *)
(*     m = [state, transition, log]                                        *)
(* so that the same definition serves a call made by the host and a call   *)
(* made by a handler from inside a dispatch.  `log` is the sequence of     *)
(* event paths dispatched during the current (or most recent) host call.   *)
(* Transition.exec, the loop that runs the queued phases, is unrolled into *)
(* one ExecStep per queued entry; `pc` is "exec" while that loop is on the *)
(* call stack of the host call recorded in `call`.                         *)
(***************************************************************************)
EXTENDS Integers, Sequences, FiniteSets, TLC

VARIABLES
    config,       \* this.config: [events, initial, final, defer]
    states,       \* this.states: ordered list of state names
    transitions,  \* this.transitions: state -> list of action names
    actions,      \* this.actions: <<action, from>> -> to
    state,        \* this.state ("" = not started)
    transition,   \* this.transition (Null = none)
    log,          \* paths dispatched during the current host call
    pc,           \* "idle", or "exec" inside Transition.exec
    call,         \* the current / most recent host call
    ret,          \* its return value ("pending" while it runs)
    pre,          \* state and transition when that call was made
    handlers,     \* this.handlers: path -> list of callables
    invoked       \* callables invoked during the current host call

vars == <<config, states, transitions, actions, state, transition, log, pc,
          call, ret, pre, handlers, invoked>>

tables == <<config, states, transitions, actions, handlers>>

-----------------------------------------------------------------------------
(* Values *)

\* a `to` that is a resolver function rather than a state name
Resolver == "<function>"

\* JavaScript's undefined (an absent optional argument or config field)
Undefined == "<undefined>"

\* no active transition (this.transition is undefined / deleted)
Null == [active |-> FALSE]

\* the commit entry of a transition's queue (not a dispatch)
Commit == <<"commit">>

\* a raised error that ends an operation before it returns
Failed == [failed |-> TRUE]

-----------------------------------------------------------------------------
(* Strings the machine parses *)

\* A string that is parsed (a shorthand rule, a handler id) is the sequence
\* of its tokens: each maximal run of word characters (\w+) is one token,
\* every other character is a token of its own.
Punctuation == {" ", ":", "|", "=", "<", ">", "-", ".", "@", "(", ")", "*"}

IsWord(tok) == tok \notin Punctuation

IsWordAt(t, i) == i >= 1 /\ i <= Len(t) /\ IsWord(t[i])

\* the string a token sequence spells: a single token is that string
Str(t) ==
    CASE Len(t) = 1 -> t[1]
      [] t = <<"b", " ", ">", " ", "c">> -> "b > c"
      [] t = <<"b", " ", "<", " ", "c">> -> "b < c"
      [] t = <<"a", ".", "leave">>       -> "a.leave"
      [] t = <<"next", ".", "start">>    -> "next.start"

\* callables and other values passed as a handler
Fn(id) == [kind |-> "function", id |-> id]
FnList(l) == [kind |-> "array", items |-> l]
NotFn == [kind |-> "object"]

\* isFunction(value)
isFunction(v) == v.kind = "function"

\* isString(event): the rule is a shorthand string
isString(ev) == "str" \in DOMAIN ev

-----------------------------------------------------------------------------
(* Bounds *)

\* on() is called while the registry holds fewer than MaxOn callables
MaxOn == 2

-----------------------------------------------------------------------------
(* The configuration the machine is constructed with *)

\* config.events: next: a > b > c, skip: a > b, back: b > a, and a dynamic
\* action jump from a.  State c has no outgoing action.
Events ==
    << [name |-> "next", from |-> "a", to |-> "b"],
       [name |-> "skip", from |-> "a", to |-> "b"],
       [name |-> "jump", from |-> "a", to |-> Resolver],
       [name |-> "next", from |-> "b", to |-> "c"],
       [name |-> "back", from |-> "b", to |-> "a"] >>

\* config.handlers: the host's callable cb at the leave and enter path of
\* every state and at the start and end path of every action
Handlers ==
    << [id |-> <<"leave", ":", "a", " ", "b", " ", "c">>, fn |-> Fn("cb")],
       [id |-> <<"enter", ":", "a", " ", "b", " ", "c">>, fn |-> Fn("cb")],
       [id |-> <<"start", ":", "next", " ", "skip", " ", "jump", " ", "back">>,
        fn |-> Fn("cb")],
       [id |-> <<"end", ":", "next", " ", "skip", " ", "jump", " ", "back">>,
        fn |-> Fn("cb")] >>

Configs ==
    { [events |-> Events, initial |-> i, final |-> "c", defer |-> d,
       handlers |-> Handlers] :
          i \in {Undefined, "b"}, d \in BOOLEAN }

\* shorthand rules: a chain, a reversed chain, and two bidirectional rules
Chain     == <<"next", " ", ":", " ", "a", " ", ">", " ", "b", " ", ">", " ", "c">>
ChainRev  == <<"back", " ", ":", " ", "a", " ", "<", " ", "b", " ", "<", " ", "c">>
BothWays  == <<"back", ":", " ", "a", " ", "-", " ", "b">>
BothWays2 == <<"skip", " ", "=", "b", "-", "c">>

\* structured rules over four states: x: a -> b, y: c -> d, and the same
\* followed by a rule back to a
FourStates ==
    << [name |-> "next", from |-> "a", to |-> "b"],
       [name |-> "skip", from |-> "c", to |-> "d"] >>
FourStatesBack == Append(FourStates, [name |-> "back", from |-> "b", to |-> "a"])

\* configurations written with shorthand strings (with and without an
\* explicit initial state, started and deferred) and with structured rules
CompileConfigs ==
    { [events |-> << [str |-> Chain] >>, initial |-> Undefined,
       final |-> "c", defer |-> FALSE],
      [events |-> << [str |-> Chain] >>, initial |-> "a",
       final |-> "c", defer |-> FALSE],
      [events |-> << [str |-> Chain], [str |-> ChainRev] >>, initial |-> "c",
       final |-> "a", defer |-> FALSE],
      [events |-> << [str |-> BothWays] >>, initial |-> "a",
       final |-> "c", defer |-> FALSE],
      [events |-> << [str |-> BothWays] >>, initial |-> "a",
       final |-> "c", defer |-> TRUE],
      [events |-> << [str |-> BothWays2] >>, initial |-> "c",
       final |-> "a", defer |-> FALSE],
      [events |-> FourStates, initial |-> Undefined, final |-> "d",
       defer |-> FALSE],
      [events |-> FourStatesBack, initial |-> Undefined, final |-> "d",
       defer |-> FALSE],
      [events |-> FourStatesBack, initial |-> Undefined, final |-> "d",
       defer |-> TRUE] }

\* configurations of a machine the host attaches handlers to: no handlers
\* map, a map whose one value is a list of callables, and a map whose
\* second value is not callable
HandlerEvents ==
    << [name |-> "next", from |-> "a", to |-> "b"],
       [name |-> "back", from |-> "b", to |-> "a"] >>

HandlerConfigs ==
    { [events |-> HandlerEvents, initial |-> Undefined, final |-> "c",
       defer |-> FALSE],
      [events |-> HandlerEvents, initial |-> Undefined, final |-> "c",
       defer |-> FALSE,
       handlers |-> << [id |-> <<"leave", ":", "a">>,
                        fn |-> FnList(<<Fn("f"), Fn("g")>>)] >>],
      [events |-> HandlerEvents, initial |-> Undefined, final |-> "c",
       defer |-> FALSE,
       handlers |-> << [id |-> <<"enter", ":", "b">>, fn |-> Fn("f")],
                       [id |-> <<"leave", ":", "a">>, fn |-> NotFn] >>] }

\* ids a host may pass to on(): the bare name of a state, a dotted path, the
\* explicit form of a state's leave event, an @-prefixed action, the explicit
\* form of an action's start event, the bare name of an action, a name that
\* is nothing, a type with two targets, a type with a blank target, and a
\* type with no target
HandlerIds ==
    { <<"a">>,
      <<"leave">>,
      <<"state", ".", "a", ".", "leave">>,
      <<"state", ".", "leave", ":", "a">>,
      <<"@", "next">>,
      <<"action", ".", "start", ":", "next">>,
      <<"next">>,
      <<"blah">>,
      <<"leave", ":", "a", " ", "b">>,
      <<"leave", ":", " ">> }

\* values a host may pass to on() as the handler
HandlerValues == {Fn("f"), Fn("g"), NotFn}

\* names a host may pass as an action or a state
ActionNames == {"next", "skip", "jump", "back", "fly"}
StateNames  == {"a", "b", "c", "zz"}

\* what a resolver function may do when invoked: return a name (declared or
\* not) or throw
Throws == "<throws>"
ResolverOutcomes == {"b", "c", "zz", Throws}

\* what a handler may call on the machine from inside a dispatch.  The
\* handlers that call back are those registered at a literal state / action
\* path (the cb of Handlers); wildcard, transition.* and system.* handlers
\* only observe.
HandlerOps == {"none", "pause", "resume", "cancel", "end", "reset"}

-----------------------------------------------------------------------------
(* ValueMap: the table container *)

VMEmpty == [k \in {} |-> <<>>]

\* ValueMap.set(path, value): overwrite
VMset(map, key, value) ==
    [k \in DOMAIN map \cup {key} |-> IF k = key THEN value ELSE map[k]]

\* ValueMap.add(path, value): append to the list at path, creating it
VMadd(map, key, value) ==
    [k \in DOMAIN map \cup {key} |->
        IF k = key
        THEN (IF key \in DOMAIN map THEN Append(map[key], value) ELSE <<value>>)
        ELSE map[k]]

\* ValueMap.insert(path, value): append to the list at path, creating it
VMinsert(map, key, value) == VMadd(map, key, value)

\* ValueMap.has(path) of the actions table: some rule has this action
VMhasAction(map, action) == \E k \in DOMAIN map : k[1] = action

\* ValueMap.get(path) is defined (not undefined)
VMdefined(map, key) == key \in DOMAIN map

\* ValueMap.has(path, value): value is in the list at path
VMhas(map, key, value) ==
    /\ key \in DOMAIN map
    /\ \E i \in 1..Len(map[key]) : map[key][i] = value

-----------------------------------------------------------------------------
(* Handler registration: on, addHandler *)

\* eventLookup: hash of family types
eventLookup ==
    [change   |-> "system",     update |-> "system",
     complete |-> "system",     reset  |-> "system",
     start    |-> "action",     end    |-> "action",
     leave    |-> "state",      enter  |-> "state",
     add      |-> "state",      remove |-> "state",
     pause    |-> "transition", resume |-> "transition",
     cancel   |-> "transition"]

\* id.match(/^(?:(\w+)\.)?(\w+[-.\w]*)(?::(.*))?/) is not null
idMatches(t) == IsWordAt(t, 1)

\* the optional group (\w+)\. takes part in the match
idHasFamily(t) == Len(t) >= 3 /\ t[2] = "." /\ IsWord(t[3])

\* the last token of \w+[-.\w]* when it starts at token i
RECURSIVE typeEnd(_, _)
typeEnd(t, i) ==
    IF i + 1 <= Len(t) /\ (IsWord(t[i + 1]) \/ t[i + 1] \in {"-", "."})
    THEN typeEnd(t, i + 1)
    ELSE i

\* let [, event, type, target] = matches; target is kept as its tokens,
\* empty when the group is absent or the empty string
idParse(t) ==
    LET start == IF idHasFamily(t) THEN 3 ELSE 1
        e     == typeEnd(t, start)
    IN  [event  |-> IF idHasFamily(t) THEN t[1] ELSE Undefined,
         type   |-> Str(SubSeq(t, start, e)),
         target |-> IF e + 1 <= Len(t) /\ t[e + 1] = ":"
                    THEN SubSeq(t, e + 2, Len(t)) ELSE <<>>]

\* the path a handler of (event, type, target) is stored at
handlerPath(event, type, target) ==
    IF event = "action" \/ event = "state"
    THEN <<event, target, type>>
    ELSE <<event, type>>

\* addHandler(fsm, event, type, target, fn): raises for a non-callable
addHandler(reg, event, type, target, fn) ==
    IF ~ isFunction(fn)
    THEN [ok |-> FALSE, handlers |-> reg]
    ELSE [ok |-> TRUE,
          handlers |-> VMinsert(reg, handlerPath(event, type, target), fn)]

\* targets.map(target => addHandler(this, event, type, target, fn))
RECURSIVE addHandlers(_, _, _, _, _)
addHandlers(reg, event, type, targets, fn) ==
    IF targets = <<>> THEN [ok |-> TRUE, handlers |-> reg]
    ELSE LET r == addHandler(reg, event, type, Head(targets), fn)
         IN  IF r.ok THEN addHandlers(r.handlers, event, type, Tail(targets), fn)
             ELSE r

\* the resolution of a parsed id p that maps the bare name of a state to
\* its enter event
onResolveParsed_Enter(fsm, p) ==
    LET sh == p.event = Undefined
        known  == sh /\ p.type \in DOMAIN eventLookup
        aState == sh /\ ~ known
                     /\ \E i \in 1..Len(fsm.states) : fsm.states[i] = p.type
        anAction == sh /\ ~ known /\ ~ aState
                       /\ VMhasAction(fsm.actions, p.type)
    IN  [event   |-> IF ~ sh THEN p.event
                     ELSE IF known THEN eventLookup[p.type]
                     ELSE IF aState THEN "state"
                     ELSE IF anAction THEN "action"
                     ELSE Undefined,
         type    |-> IF aState THEN "enter"
                     ELSE IF anAction THEN "end"
                     ELSE p.type,
         targets |-> IF aState \/ anAction THEN <<p.type>>
                     ELSE IF p.target = <<>> THEN <<"*">>
                     ELSE SelectSeq(p.target, IsWord)]

\* the family, type and targets on() resolves the parsed id p to; family
\* Undefined when the id maps to no event or existing entity
onResolveParsed(fsm, p) ==
    LET sh == p.event = Undefined
        known  == sh /\ p.type \in DOMAIN eventLookup
        aState == sh /\ ~ known
                     /\ \E i \in 1..Len(fsm.states) : fsm.states[i] = p.type
        anAction == sh /\ ~ known /\ ~ aState
                       /\ VMhasAction(fsm.actions, p.type)
    IN  [event   |-> IF ~ sh THEN p.event
                     ELSE IF known THEN eventLookup[p.type]
                     ELSE IF aState THEN "state"
                     ELSE IF anAction THEN "action"
                     ELSE Undefined,
         type    |-> IF aState THEN "leave"
                     ELSE IF anAction THEN "end"
                     ELSE p.type,
         \* target ? target.match(/\w+/g) : ['*']
         targets |-> IF aState \/ anAction THEN <<p.type>>
                     ELSE IF p.target = <<>> THEN <<"*">>
                     ELSE SelectSeq(p.target, IsWord)]

\* what on() returns once addHandler has run for every target
onAdded(a) == [ret |-> IF a.ok THEN "this" ELSE "error", handlers |-> a.handlers]

\* on(id, fn) from the resolution r of the id, without the early return for
\* an id that maps to nothing
onResolved_AttachesUnresolved(fsm, r, fn) ==
    IF r.targets = <<>>
    THEN [ret |-> "error", handlers |-> fsm.handlers]
    ELSE onAdded(addHandlers(fsm.handlers, r.event, r.type, r.targets, fn))

\* on(id, fn) from the resolution r of the id
onResolved(fsm, r, fn) ==
    IF r.event = Undefined
    THEN [ret |-> "undefined", handlers |-> fsm.handlers]
    ELSE IF r.targets = <<>>
    THEN [ret |-> "error", handlers |-> fsm.handlers]
    ELSE onAdded(addHandlers(fsm.handlers, r.event, r.type, r.targets, fn))

\* on(id, fn), on fsm = [states, actions, handlers]: the registry afterwards
\* and what the call returns ("error" when it raises)
on(fsm, id, fn) ==
    IF ~ idMatches(id)
    THEN [ret |-> "this", handlers |-> fsm.handlers]
    ELSE onResolved(fsm, onResolveParsed(fsm, idParse(id)), fn)

-----------------------------------------------------------------------------
(* Compilation of the configuration: initialize *)

\* addState(fsm, state) without the indexOf test
addState_Always(sts, s) ==
    IF s # Resolver /\ s # Undefined THEN Append(sts, s) ELSE sts

\* addState(fsm, state)
addState(sts, s) ==
    IF s # Resolver /\ s # Undefined /\ \A i \in 1..Len(sts) : sts[i] # s
    THEN Append(sts, s)
    ELSE sts

\* event[key]: a shorthand string has no from / to property
eventField(ev, key) ==
    IF isString(ev) THEN Undefined
    ELSE IF key = "from" THEN ev.from ELSE ev.to

\* addStates(fsm, key, transitions)
RECURSIVE addStates(_, _, _)
addStates(sts, key, evs) ==
    IF evs = <<>> THEN sts
    ELSE addStates(addState(sts, eventField(Head(evs), key)), key, Tail(evs))

\* add(action, from, to), on the pair of tables [actions, transitions]
add(tb, action, from, to) ==
    [actions     |-> VMset(tb.actions, <<action, from>>, to),
     transitions |-> VMadd(tb.transitions, from, action)]

\* the first token at or after i that is not white space
RECURSIVE skipSpaces(_, _)
skipSpaces(t, i) ==
    IF i <= Len(t) /\ t[i] = " " THEN skipSpaces(t, i + 1) ELSE i

\* /(\w+)\s*[\|:=]\s*(\w+)\s*([<>-])\s*(\w.*)/ matches with (\w+) at token i
shorthandAt(t, i) ==
    LET sep  == skipSpaces(t, i + 1)
        from == skipSpaces(t, sep + 1)
        op   == skipSpaces(t, from + 1)
        to   == skipSpaces(t, op + 1)
    IN  [ok   |-> /\ IsWordAt(t, i)
                  /\ sep <= Len(t) /\ t[sep] \in {"|", ":", "="}
                  /\ IsWordAt(t, from)
                  /\ op <= Len(t) /\ t[op] \in {"<", ">", "-"}
                  /\ IsWordAt(t, to),
         name |-> i, from |-> from, op |-> op, to |-> to]

\* event.match(...): the leftmost match, [name, from, op, to], `to` being
\* the rest of the string; Failed when there is none
shorthandMatch(t) ==
    LET hits == {i \in 1..Len(t) : shorthandAt(t, i).ok}
    IN  IF hits = {} THEN Failed
        ELSE LET m == shorthandAt(t, CHOOSE i \in hits : \A j \in hits : i <= j)
             IN  [name |-> t[m.name], from |-> t[m.from], op |-> t[m.op],
                  to   |-> Str(SubSeq(t, m.to, Len(t)))]

\* the rules a matched shorthand adds, the one rule from -> to whatever the
\* operator
addMatched_OneWay(tb, m) ==
    IF m = Failed THEN Failed
    ELSE add(tb, m.name, m.from, m.to)

\* the rules a matched shorthand adds: both directions for -, the reverse
\* for <
addMatched(tb, m) ==
    IF m = Failed THEN Failed
    ELSE IF m.op = "-"
    THEN add(add(tb, m.name, m.from, m.to), m.name, m.to, m.from)
    ELSE IF m.op = "<"
    THEN add(tb, m.name, m.to, m.from)
    ELSE add(tb, m.name, m.from, m.to)

\* the body of config.events.map for a shorthand string
addShorthand(tb, t) == addMatched(tb, shorthandMatch(t))

\* config.events.map(event => ...): Failed when a shorthand does not match
RECURSIVE addEvents(_, _)
addEvents(tb, evs) ==
    IF evs = <<>> THEN tb
    ELSE LET ev == Head(evs)
             r  == IF isString(ev) THEN addShorthand(tb, ev.str)
                   ELSE add(tb, ev.name, ev.from, ev.to)
         IN  IF r = Failed THEN Failed ELSE addEvents(r, Tail(evs))

\* for(let name in config.handlers) this.on(name, config.handlers[name])
RECURSIVE onAll(_, _)
onAll(fsm, hs) ==
    IF hs = <<>> THEN [ret |-> "this", handlers |-> fsm.handlers]
    ELSE LET r == on(fsm, Head(hs).id, Head(hs).fn)
         IN  IF r.ret = "error" THEN r
             ELSE onAll([fsm EXCEPT !.handlers = r.handlers], Tail(hs))

\* the end of initialize(config): the state, given the states sts, the rule
\* tables tb and the outcome hs of registering the handlers
initializeState(cfg, sts, tb, hs) ==
    LET ini == IF cfg.initial = Undefined
               THEN (IF sts = <<>> THEN Undefined ELSE sts[1])
               ELSE cfg.initial
        ok  == tb # Failed /\ hs.ret # "error"
    IN  [ok          |-> ok,
         config      |-> [cfg EXCEPT !.initial = ini],
         states      |-> sts,
         transitions |-> IF tb = Failed THEN VMEmpty ELSE tb.transitions,
         actions     |-> IF tb = Failed THEN VMEmpty ELSE tb.actions,
         handlers    |-> hs.handlers,
         state       |-> IF cfg.defer \/ ~ ok THEN "" ELSE ini]

\* the handlers loop of initialize(config), not reached when the events
\* loop raised
initializeHandlers(cfg, sts, tb) ==
    initializeState(cfg, sts, tb,
        IF tb = Failed \/ "handlers" \notin DOMAIN cfg
        THEN [ret |-> "this", handlers |-> VMEmpty]
        ELSE onAll([states |-> sts, actions |-> tb.actions,
                    handlers |-> VMEmpty], cfg.handlers))

\* initialize(config): the compiled machine; ok is false when it raises
initialize(cfg) ==
    initializeHandlers(cfg,
        addStates(addStates(<<>>, "from", cfg.events), "to", cfg.events),
        addEvents([actions |-> VMEmpty, transitions |-> VMEmpty], cfg.events))

-----------------------------------------------------------------------------
(* Transition: the lifecycle of one in-flight transition *)

\* The queue of a transition: the literal and the wildcard dispatch of each
\* phase, with the commit of the state between action start and state enter.
Queue(t) ==
    << <<"state", t.from, "leave">>,   <<"state", "*", "leave">>,
       <<"action", t.action, "start">>, <<"action", "*", "start">>,
       Commit,
       <<"state", t.to, "enter">>,      <<"state", "*", "enter">>,
       <<"action", t.action, "end">>,   <<"action", "*", "end">> >>

\* Transition.create(fsm, action, rest): resolve the target and record
\* {action, from, to}.  r is what the resolver does if there is one.  idx is
\* the next queue entry to run; fired is the history of the paths already
\* dispatched for this transition.
TransitionCreate(m, action, r) ==
    LET from   == m.state
        mapped == actions[<<action, from>>]
        to     == IF mapped = Resolver THEN r ELSE mapped
        valid  == mapped # Resolver
                    \/ (r # Throws /\ \E i \in 1..Len(states) : states[i] = r)
    IN  IF valid
        THEN [ok |-> TRUE,
              t  |-> [active |-> TRUE, action |-> action, from |-> from,
                      to |-> to, paused |-> FALSE, idx |-> 1,
                      fired |-> <<>>]]
        ELSE [ok |-> FALSE, t |-> Null]

\* Transition.pause()
TransitionPause(t) == [t EXCEPT !.paused = TRUE]

\* Transition.resume(): valid only while paused
TransitionResume(t) == IF t.paused THEN [t EXCEPT !.paused = FALSE] ELSE t

-----------------------------------------------------------------------------
(* StateMachine: queries *)

\* dispatch(path, event) that calls only the first handler of the list
dispatch_FirstOnly(m, path) ==
    [m EXCEPT !.log = Append(@, path),
              !.inv = IF VMdefined(handlers, path)
                      THEN Append(@, handlers[path][1])
                      ELSE @]

\* dispatch(path, event): the handlers registered at path are invoked
dispatch(m, path) ==
    [m EXCEPT !.log = Append(@, path),
              !.inv = IF VMdefined(handlers, path) THEN @ \o handlers[path]
                      ELSE @]

\* update(name, type)
update(m, name, type) == dispatch(m, <<name, type>>)

\* has(state)
has(s) == \E i \in 1..Len(states) : states[i] = s

\* can(action) that takes the index of the action in the list as its result
can_IndexTruthy(m, action) ==
    /\ m.state \in DOMAIN transitions
    /\ \E i \in 2..Len(transitions[m.state]) :
           transitions[m.state][i] = action

\* can(action)
can(m, action) == VMhas(transitions, m.state, action)

\* cannot(action)
cannot(m, action) == ~ can(m, action)

\* isStarted()
isStarted(m) == m.state # ""

\* isTransitioning()
isTransitioning(m) == m.transition # Null

\* isPaused()
isPaused(m) == IF m.transition # Null THEN m.transition.paused ELSE FALSE

\* isComplete()
isComplete(m) == m.state = config.final

\* getActionsFor(null, true) raises a TypeError: the current state has no
\* list in the transitions table, and actions.map is called on undefined
getActionsForThrows(m) == ~ VMdefined(transitions, m.state)

\* getActionsFor(null, true): the action -> target pairs of the current
\* state, in table order
getActionsFor(m) ==
    [i \in 1..Len(transitions[m.state]) |->
        <<transitions[m.state][i],
          actions[<<transitions[m.state][i], m.state>>]>>]

\* the last action of the pairs whose target is s
firstActionTo_Last(acts, s) ==
    LET hits == {i \in 1..Len(acts) : acts[i][2] = s}
    IN  IF hits = {} THEN Undefined
        ELSE acts[CHOOSE i \in hits : \A j \in hits : i >= j][1]

\* the first action of the pairs whose target is s, Undefined (null) if none
firstActionTo(acts, s) ==
    LET hits == {i \in 1..Len(acts) : acts[i][2] = s}
    IN  IF hits = {} THEN Undefined
        ELSE acts[CHOOSE i \in hits : \A j \in hits : i <= j][1]

\* getActionForState(state)
getActionForState(m, s) ==
    IF has(s)
    THEN (IF getActionsForThrows(m) THEN Throws
          ELSE firstActionTo(getActionsFor(m), s))
    ELSE Undefined

-----------------------------------------------------------------------------
(* StateMachine: commands, as functions of the machine record *)

\* pause() that notifies but does not pause the transition
pause_OnlyNotifies(m) ==
    IF m.transition # Null
    THEN update(m, "transition", "pause")
    ELSE m

\* pause()
pause(m) ==
    IF m.transition # Null
    THEN update([m EXCEPT !.transition = TransitionPause(@)],
                "transition", "pause")
    ELSE m

\* resume(); the continued exec loop is the caller's
resume(m) ==
    IF m.transition # Null
    THEN LET m1 == update(m, "transition", "resume")
         IN  [m1 EXCEPT !.transition = TransitionResume(@)]
    ELSE m

\* cancel() that forgets to restore the state
cancel_KeepsState(m) ==
    IF m.transition # Null
    THEN update([m EXCEPT !.transition = Null], "transition", "cancel")
    ELSE m

\* cancel()
cancel(m) ==
    IF m.transition # Null
    THEN update([m EXCEPT !.state = m.transition.from, !.transition = Null],
                "transition", "cancel")
    ELSE m

\* end() that tests isComplete() before committing the state
end_TestsOldState(m) ==
    IF m.transition # Null
    THEN LET m1 == [m EXCEPT !.state = m.transition.to, !.transition = Null]
             m2 == update(m1, "transition", "end")
             m3 == update(m2, "system", "change")
         IN  IF isComplete(m) THEN update(m3, "system", "complete") ELSE m3
    ELSE m

\* end() that notifies of a change whether or not a transition is active
end_AlwaysNotifies(m) ==
    LET m1 == IF m.transition # Null
              THEN update([m EXCEPT !.state = m.transition.to,
                                    !.transition = Null],
                          "transition", "end")
              ELSE m
        m2 == update(m1, "system", "change")
    IN  IF isComplete(m2) THEN update(m2, "system", "complete") ELSE m2

\* end()
end(m) ==
    IF m.transition # Null
    THEN LET m1 == [m EXCEPT !.state = m.transition.to, !.transition = Null]
             m2 == update(m1, "transition", "end")
             m3 == update(m2, "system", "change")
         IN  IF isComplete(m3) THEN update(m3, "system", "complete") ELSE m3
    ELSE m

\* reset(initial) that leaves the in-flight transition in place
reset_KeepsTransition(m, initial) ==
    update([m EXCEPT !.state = IF initial = Undefined \/ initial = ""
                               THEN config.initial ELSE initial],
           "system", "reset")

\* reset(initial)
reset(m, initial) ==
    LET m1 == [m EXCEPT !.state = IF initial = Undefined \/ initial = ""
                                  THEN config.initial ELSE initial]
        m2 == IF m1.transition # Null THEN [m1 EXCEPT !.transition = Null]
              ELSE m1
    IN  update(m2, "system", "reset")

\* do(action) that catches the resolver's failure and returns false
do_SwallowsFailure(m, action, r) ==
    IF VMhas(transitions, m.state, action)
    THEN LET c == TransitionCreate(m, action, r)
         IN  IF c.ok
             THEN [m   |-> update([m EXCEPT !.transition = c.t],
                                  "transition", "start"),
                   pc  |-> "exec", ret |-> "pending"]
             ELSE [m |-> m, pc |-> "idle", ret |-> "false"]
    ELSE [m |-> m, pc |-> "idle", ret |-> "false"]

\* do(action) without the transition.start notification
do_SkipsStart(m, action, r) ==
    IF VMhas(transitions, m.state, action)
    THEN LET c == TransitionCreate(m, action, r)
         IN  IF c.ok
             THEN [m   |-> [m EXCEPT !.transition = c.t],
                   pc  |-> "exec", ret |-> "pending"]
             ELSE [m |-> m, pc |-> "idle", ret |-> "error"]
    ELSE [m |-> m, pc |-> "idle", ret |-> "false"]

\* do(action): the call up to the start of the exec loop.  The result is the
\* machine, whether the exec loop is entered, and the value returned so far.
do(m, action, r) ==
    IF can(m, action)
    THEN LET c == TransitionCreate(m, action, r)
         IN  IF c.ok
             THEN [m   |-> update([m EXCEPT !.transition = c.t],
                                  "transition", "start"),
                   pc  |-> "exec", ret |-> "pending"]
             ELSE [m |-> m, pc |-> "idle", ret |-> "error"]
    ELSE [m |-> m, pc |-> "idle", ret |-> "false"]

\* go(state); the action it finds has a fixed target, no resolver runs
go(m, s) ==
    IF has(s)
    THEN LET action == getActionForState(m, s)
         IN  IF action = Throws
             THEN [m |-> m, pc |-> "idle", ret |-> "error"]
             ELSE IF action # Undefined
             THEN do(m, action, Undefined)
             ELSE [m |-> m, pc |-> "idle", ret |-> "false"]
    ELSE [m |-> m, pc |-> "idle", ret |-> "false"]

\* what a handler does to the machine from inside a dispatch
HandlerCall(h, m) ==
    CASE h = "pause"  -> pause(m)
      [] h = "resume" -> resume(m)
      [] h = "cancel" -> cancel(m)
      [] h = "end"    -> end(m)
      [] h = "reset"  -> reset(m, Undefined)
      [] OTHER        -> m

-----------------------------------------------------------------------------
(* The state machine *)

\* the resolver outcome a call consumed, if the action has a resolver
Used(st, action, r) ==
    IF VMhas(transitions, st, action) /\ actions[<<action, st>>] = Resolver
    THEN r ELSE Undefined

M == [state |-> state, transition |-> transition, log |-> log,
      inv |-> invoked]

\* the machine at the start of a host call
M0 == [state |-> state, transition |-> transition, log |-> <<>>,
       inv |-> <<>>]

Snapshot == [state |-> state, transition |-> transition]

\* the value a host call returns once its exec loop is over
RetOf(c) == IF c.op = "resume" THEN "this" ELSE "true"

Set(m) ==
    /\ state' = m.state
    /\ transition' = m.transition
    /\ log' = m.log
    /\ invoked' = m.inv

\* new StateMachine(target, config), c being the outcome of
\* initialize(config): update('system', 'initialize') follows; a construction
\* that raises leaves no machine to call (pc = "dead")
Constructed(c) ==
    /\ config = c.config
    /\ states = c.states
    /\ transitions = c.transitions
    /\ actions = c.actions
    /\ handlers = c.handlers
    /\ state = c.state
    /\ transition = Null
    /\ log = IF c.ok THEN << <<"system", "initialize">> >> ELSE <<>>
    /\ invoked = IF c.ok /\ VMdefined(c.handlers, <<"system", "initialize">>)
                 THEN c.handlers[<<"system", "initialize">>] ELSE <<>>
    /\ pc = IF c.ok THEN "idle" ELSE "dead"
    /\ call = [op |-> "new", arg |-> Undefined, resolver |-> Undefined]
    /\ ret = IF c.ok THEN "this" ELSE "error"
    /\ pre = [state |-> "", transition |-> Null]

InitWith(cfg) == Constructed(initialize(cfg))

Init == \E cfg \in Configs : InitWith(cfg)

\* the host calls do(action)
Do(action, r) ==
    /\ pc = "idle"
    /\ LET d == do(M0, action, r)
       IN  /\ Set(d.m)
           /\ pc' = d.pc
           /\ ret' = d.ret
    /\ call' = [op |-> "do", arg |-> action, resolver |-> Used(state, action, r)]
    /\ pre' = Snapshot
    /\ UNCHANGED tables

\* the host calls go(state)
Go(s) ==
    /\ pc = "idle"
    /\ LET d == go(M0, s)
       IN  /\ Set(d.m)
           /\ pc' = d.pc
           /\ ret' = d.ret
    /\ call' = [op |-> "go", arg |-> s, resolver |-> Undefined]
    /\ pre' = Snapshot
    /\ UNCHANGED tables

\* the host calls pause()
Pause ==
    /\ pc = "idle"
    /\ Set(pause(M0))
    /\ pc' = "idle"
    /\ ret' = "this"
    /\ call' = [op |-> "pause", arg |-> Undefined, resolver |-> Undefined]
    /\ pre' = Snapshot
    /\ UNCHANGED tables

\* the host calls resume(); a paused transition's exec loop continues
Resume ==
    /\ pc = "idle"
    /\ Set(resume(M0))
    /\ IF isPaused(M0)
       THEN pc' = "exec" /\ ret' = "pending"
       ELSE pc' = "idle" /\ ret' = "this"
    /\ call' = [op |-> "resume", arg |-> Undefined, resolver |-> Undefined]
    /\ pre' = Snapshot
    /\ UNCHANGED tables

\* the host calls cancel()
Cancel ==
    /\ pc = "idle"
    /\ Set(cancel(M0))
    /\ pc' = "idle"
    /\ ret' = "this"
    /\ call' = [op |-> "cancel", arg |-> Undefined, resolver |-> Undefined]
    /\ pre' = Snapshot
    /\ UNCHANGED tables

\* the host calls end()
End ==
    /\ pc = "idle"
    /\ Set(end(M0))
    /\ pc' = "idle"
    /\ ret' = "this"
    /\ call' = [op |-> "end", arg |-> Undefined, resolver |-> Undefined]
    /\ pre' = Snapshot
    /\ UNCHANGED tables

\* the host calls reset(initial)
Reset(initial) ==
    /\ pc = "idle"
    /\ Set(reset(M0, initial))
    /\ pc' = "idle"
    /\ ret' = "this"
    /\ call' = [op |-> "reset", arg |-> initial, resolver |-> Undefined]
    /\ pre' = Snapshot
    /\ UNCHANGED tables

\* Transition.exec: the next queued dispatch, whose handler calls h; the loop
\* ends when the handler left the transition paused or cleared
ExecDispatch(h) ==
    /\ pc = "exec"
    /\ transition # Null
    /\ ~ transition.paused
    /\ transition.idx <= Len(Queue(transition))
    /\ Queue(transition)[transition.idx] # Commit
    /\ h # "none" => VMdefined(handlers, Queue(transition)[transition.idx])
    /\ LET m1 == [M EXCEPT !.transition.idx = @ + 1,
                           !.transition.fired =
                               Append(@, Queue(transition)[transition.idx])]
           m2 == HandlerCall(h, dispatch(m1, Queue(transition)[transition.idx]))
       IN  /\ Set(m2)
           /\ IF m2.transition = Null \/ m2.transition.paused
              THEN pc' = "idle" /\ ret' = RetOf(call)
              ELSE pc' = "exec" /\ ret' = ret
    /\ UNCHANGED <<tables, call, pre>>

\* Transition.exec: the queued commit of the state
ExecCommit ==
    /\ pc = "exec"
    /\ transition # Null
    /\ ~ transition.paused
    /\ transition.idx <= Len(Queue(transition))
    /\ Queue(transition)[transition.idx] = Commit
    /\ state' = transition.to
    /\ transition' = [transition EXCEPT !.idx = @ + 1]
    /\ UNCHANGED <<tables, log, invoked, pc, call, ret, pre>>

\* Transition.exec: the queue is empty, the transition completes
ExecComplete ==
    /\ pc = "exec"
    /\ transition # Null
    /\ ~ transition.paused
    /\ transition.idx > Len(Queue(transition))
    /\ LET m1 == [M EXCEPT !.state = transition.to, !.transition = Null]
           m2 == update(m1, "system", "change")
       IN  Set(IF isComplete(m2) THEN update(m2, "system", "complete") ELSE m2)
    /\ pc' = "idle"
    /\ ret' = RetOf(call)
    /\ UNCHANGED <<tables, call, pre>>

Next ==
    \/ \E a \in ActionNames, r \in ResolverOutcomes : Do(a, r)
    \/ \E s \in StateNames : Go(s)
    \/ Pause
    \/ Resume
    \/ Cancel
    \/ End
    \/ \E i \in StateNames \cup {Undefined, ""} : Reset(i)
    \/ \E h \in HandlerOps : ExecDispatch(h)
    \/ ExecCommit
    \/ ExecComplete

Spec == Init /\ [][Next]_vars

\* machines compiled from shorthand and structured configurations, driven
\* by the same host calls
CompileInit == \E cfg \in CompileConfigs : InitWith(cfg)

CompileSpec == CompileInit /\ [][Next]_vars

\* the number of callables in the registry
RECURSIVE Registered(_)
Registered(reg) ==
    IF DOMAIN reg = {} THEN 0
    ELSE LET k == CHOOSE x \in DOMAIN reg : TRUE
         IN  Len(reg[k]) + Registered([x \in DOMAIN reg \ {k} |-> reg[x]])

\* the host calls on(id, fn)
On(id, fn) ==
    /\ pc = "idle"
    /\ Registered(handlers) < MaxOn
    /\ LET r == on([states |-> states, actions |-> actions,
                    handlers |-> handlers], id, fn)
       IN  /\ handlers' = r.handlers
           /\ ret' = r.ret
    /\ call' = [op |-> "on", arg |-> id, resolver |-> Undefined, fn |-> fn]
    /\ pre' = [state |-> state, transition |-> transition,
               handlers |-> handlers]
    /\ log' = <<>>
    /\ invoked' = <<>>
    /\ UNCHANGED <<config, states, transitions, actions, state, transition, pc>>

\* a machine the host attaches handlers to and then drives with do()
HandlerInit == \E cfg \in HandlerConfigs : InitWith(cfg)

HandlerNext ==
    \/ \E id \in HandlerIds, fn \in HandlerValues : On(id, fn)
    \/ \E a \in {"next", "back"} : Do(a, Undefined)
    \/ ExecDispatch("none")
    \/ ExecCommit
    \/ ExecComplete

HandlerSpec == HandlerInit /\ [][HandlerNext]_vars

-----------------------------------------------------------------------------
(* Helpers of the properties *)

InLog(e) == \E i \in 1..Len(log) : log[i] = e

\* no handler called back into the machine during the current host call
Undisturbed(l) ==
    \A i \in 1..Len(l) :
        l[i] \notin { <<"transition", "pause">>, <<"transition", "resume">>,
                      <<"transition", "cancel">>, <<"transition", "end">>,
                      <<"system", "reset">> }

\* the dispatches to a literal path, system.complete left out
IsNamed(e) == e # <<"system", "complete">> /\ (Len(e) = 3 => e[2] # "*")
Named(l) == SelectSeq(l, IsNamed)

\* the rule list gives `action` a fixed target from state s
FixedRule(s, action) ==
    \E i \in 1..Len(Events) :
        /\ Events[i].name = action /\ Events[i].from = s
        /\ Events[i].to # Resolver

\* that target
RuleTarget(s, action) ==
    (CHOOSE e \in {Events[i] : i \in 1..Len(Events)} :
        e.name = action /\ e.from = s).to

-----------------------------------------------------------------------------
(* C1 *)

\* a do(action) of a fixed-target action has returned true, undisturbed
C1_Done ==
    /\ call.op = "do" /\ pc = "idle" /\ ret = "true"
    /\ FixedRule(pre.state, call.arg)
    /\ Undisturbed(log)

C1_Sequence ==
    C1_Done =>
        /\ Named(log) =
              << <<"transition", "start">>,
                 <<"state", pre.state, "leave">>,
                 <<"action", call.arg, "start">>,
                 <<"state", RuleTarget(pre.state, call.arg), "enter">>,
                 <<"action", call.arg, "end">>,
                 <<"system", "change">> >>
        /\ state = RuleTarget(pre.state, call.arg)

\* a step of such a do dispatches a path: leave and start handlers see the
\* state still at `from`, enter and end handlers see it at `to`
C1_Commit ==
    (/\ call.op = "do" /\ pc = "exec" /\ FixedRule(pre.state, call.arg)
     /\ Undisturbed(log) /\ Len(log') = Len(log) + 1)
    => LET e == log'[Len(log')]
       IN  /\ e[1] \in {"state", "action"} /\ e[3] \in {"leave", "start"}
                => state = pre.state
           /\ e[1] \in {"state", "action"} /\ e[3] \in {"enter", "end"}
                => state = RuleTarget(pre.state, call.arg)
           /\ e = <<"system", "change">>
                => state = RuleTarget(pre.state, call.arg)

\* C1: a do(action) that no handler pauses, cancels or ends fires
\* transition.start, state.<from>.leave, action.<action>.start,
\* state.<to>.enter, action.<action>.end, system.change in this order; the
\* state is committed to `to` after action.<action>.start and before
\* state.<to>.enter, and state = to when do has returned true.
C1_DoFiresInOrder == [] C1_Sequence /\ [][C1_Commit]_vars

C1_Witness ==
    /\ C1_Done
    /\ pre.state = "a" /\ call.arg = "next" /\ state = "b"
    /\ Len(log) = 10

-----------------------------------------------------------------------------
(* The transition a host call runs *)

\* the call drives a transition: a do / go that created one, or a resume of
\* a paused one
Drives ==
    \/ call.op \in {"do", "go"} /\ ret \notin {"false", "error"}
    \/ call.op = "resume" /\ pre.transition # Null

\* its origin and its target
CallFrom == IF call.op = "resume" THEN pre.transition.from ELSE pre.state

CallTo ==
    IF call.op = "resume" THEN pre.transition.to
    ELSE IF call.op = "go" THEN call.arg
    ELSE IF call.resolver # Undefined THEN call.resolver
    ELSE RuleTarget(pre.state, call.arg)

\* the position of the first occurrence of e in the log, 0 if none
Pos(e) ==
    IF InLog(e)
    THEN CHOOSE i \in 1..Len(log) : log[i] = e /\ \A j \in 1..(i-1) : log[j] # e
    ELSE 0

\* the notifications that close a transition committed to `to`
Closing(to) ==
    IF to = config.final
    THEN << <<"system", "change">>, <<"system", "complete">> >>
    ELSE << <<"system", "change">> >>

-----------------------------------------------------------------------------
(* C2 *)

\* C2: while a transition is in flight every do(action) is rejected: it
\* returns false and the in-flight transition is neither replaced nor
\* discarded.
C2_InFlightDoRejected ==
    (call.op = "do" /\ pre.transition # Null)
        => (ret = "false" /\ transition = pre.transition)

-----------------------------------------------------------------------------
(* C3 *)

C3_HostCancel ==
    (call.op = "cancel" /\ pre.transition # Null)
        => /\ state = pre.transition.from
           /\ ~ isTransitioning(M) /\ ~ isPaused(M)
           /\ log = << <<"transition", "cancel">> >>

C3_HandlerCancel ==
    (Drives /\ InLog(<<"transition", "cancel">>))
        => /\ state = CallFrom
           /\ ~ isTransitioning(M) /\ ~ isPaused(M)
           /\ pc = "idle"
           /\ \A j \in (Pos(<<"transition", "cancel">>) + 1)..Len(log) :
                 /\ log[j] \notin { <<"system", "change">>,
                                    <<"system", "complete">> }
                 /\ Len(log[j]) = 3 => log[j][3] \notin {"enter", "end"}

\* C3: cancel() while a transition is active, in any phase, leaves state at
\* the transition's `from`, clears the transition and fires
\* transition.cancel; no enter, action end, system.change or
\* system.complete fires afterwards for that transition.
C3_CancelRestores == C3_HostCancel /\ C3_HandlerCancel

\* a handler of state.b.enter, after the commit, cancels
C3_Witness ==
    /\ call.op = "do" /\ pre.state = "a" /\ state = "a"
    /\ InLog(<<"state", "b", "enter">>)
    /\ log[Len(log)] = <<"transition", "cancel">>

-----------------------------------------------------------------------------
(* C4 *)

C4_HostEnd ==
    (call.op = "end" /\ pre.transition # Null)
        => /\ state = pre.transition.to
           /\ transition = Null
           /\ log = << <<"transition", "end">> >> \o Closing(pre.transition.to)

C4_HandlerEnd ==
    (Drives /\ InLog(<<"transition", "end">>))
        => /\ state = CallTo
           /\ transition = Null
           /\ pc = "idle"
           /\ SubSeq(log, Pos(<<"transition", "end">>), Len(log))
                 = << <<"transition", "end">> >> \o Closing(CallTo)

\* C4: end() while a transition is active, in any phase, commits state to
\* the transition's `to`, clears the transition, runs none of its unfired
\* handlers, and fires transition.end, system.change and then
\* system.complete iff `to` is the configured final state.
C4_EndCommits == C4_HostEnd /\ C4_HandlerEnd

\* a paused next: b > c, before its commit, is ended by the host
C4_Witness ==
    /\ call.op = "end" /\ pre.transition # Null
    /\ pre.transition.to = "c" /\ pre.state = "b" /\ state = "c"
    /\ log[Len(log)] = <<"system", "complete">>

-----------------------------------------------------------------------------
(* C5 *)

\* the actions the rule list permits from state s
Permitted(s) ==
    {Events[i].name : i \in {j \in 1..Len(Events) : Events[j].from = s}}

C5_Can ==
    \A a \in ActionNames :
        /\ can(M, a) <=> a \in Permitted(state)
        /\ cannot(M, a) <=> a \notin Permitted(state)

C5_Do ==
    call.op = "do" =>
        /\ ret = "false" <=> call.arg \notin Permitted(pre.state)
        /\ ret = "false" =>
              /\ state = pre.state
              /\ transition = pre.transition
              /\ log = <<>>
        /\ (pc = "idle" /\ call.arg \in Permitted(pre.state))
              => (ret = "true" \/ (ret = "error" /\ call.resolver # Undefined))

\* C5: can(action) is true iff the action is in the permitted-actions list
\* of the current state, cannot(action) is its negation; do(action) returns
\* true iff can(action) held when it was called (a failing resolver raises
\* instead of returning), and when it returns false the state is unchanged,
\* no transition is created and no handler is dispatched.
C5_CanDecidesDo == C5_Can /\ C5_Do

\* back is a known action, not permitted from a: do("back") is rejected
C5_Witness ==
    /\ call.op = "do" /\ call.arg = "back" /\ pre.state = "a"
    /\ ret = "false"

-----------------------------------------------------------------------------
(* C6 *)

\* the rules from state st whose fixed target is s, by position
RulesTo(st, s) ==
    {i \in 1..Len(Events) : Events[i].from = st /\ Events[i].to = s}

\* the first of them in rule order
FirstRule(st, s) ==
    Events[CHOOSE i \in RulesTo(st, s) : \A j \in RulesTo(st, s) : i <= j].name

\* this step has the effect of calling do(a)
SameAsDo(a) ==
    LET d == do(M0, a, Undefined)
    IN  /\ state' = d.m.state
        /\ transition' = d.m.transition
        /\ log' = d.m.log
        /\ pc' = d.pc
        /\ ret' = d.ret

C6_Step ==
    \A s \in StateNames :
        Go(s) =>
            /\ ret' \in {"pending", "true"} <=> RulesTo(state, s) # {}
            /\ RulesTo(state, s) # {} => SameAsDo(FirstRule(state, s))

C6_Result ==
    (call.op = "go" /\ pc = "idle" /\ ret = "true" /\ Undisturbed(log))
        => /\ state = call.arg
           /\ Named(log) =
                 << <<"transition", "start">>,
                    <<"state", pre.state, "leave">>,
                    <<"action", FirstRule(pre.state, call.arg), "start">>,
                    <<"state", call.arg, "enter">>,
                    <<"action", FirstRule(pre.state, call.arg), "end">>,
                    <<"system", "change">> >>

\* C6: go(target) returns true iff some action permitted from the current
\* state maps it to target, and then its effect is that of do(a) for the
\* first such action a in the table order of the current state.
C6_GoIsDoOfFirst == [][C6_Step]_vars /\ [] C6_Result

\* from a both next and skip reach b: go("b") ran next
C6_Witness ==
    /\ call.op = "go" /\ call.arg = "b" /\ pre.state = "a"
    /\ pc = "idle" /\ ret = "true" /\ state = "b"
    /\ InLog(<<"action", "next", "end">>)

-----------------------------------------------------------------------------
(* C7 *)

\* C7: go(target) for a declared target that no action reaches from the
\* current state returns false without raising an error and leaves state
\* and the active transition unchanged, in every machine state.
C7_GoUnreachableIsFalse ==
    (call.op = "go" /\ has(call.arg) /\ RulesTo(pre.state, call.arg) = {})
        => /\ ret = "false"
           /\ state = pre.state
           /\ transition = pre.transition

-----------------------------------------------------------------------------
(* C8 *)

\* the normal order of a transition's dispatches
Lifecycle(t) ==
    << <<"state", t.from, "leave">>,    <<"state", "*", "leave">>,
       <<"action", t.action, "start">>, <<"action", "*", "start">>,
       <<"state", t.to, "enter">>,      <<"state", "*", "enter">>,
       <<"action", t.action, "end">>,   <<"action", "*", "end">> >>

IsPrefix(p, q) == Len(p) <= Len(q) /\ p = SubSeq(q, 1, Len(p))

IsPhase(e) == Len(e) = 3
PhasesOf(l) == SelectSeq(l, IsPhase)

\* a handler paused the transition during the current call: the call is
\* over, the transition is paused in the phase of that handler
C8_Paused ==
    (Drives /\ InLog(<<"transition", "pause">>))
        => /\ pc = "idle"
           /\ isTransitioning(M) /\ isPaused(M)
           /\ log[Len(log)] = <<"transition", "pause">>
           /\ transition.fired # <<>>
           /\ state = IF transition.fired[Len(transition.fired)][3]
                            \in {"leave", "start"}
                      THEN transition.from ELSE transition.to

\* the dispatches of a transition are a prefix of the normal order
C8_Once == transition # Null => IsPrefix(transition.fired, Lifecycle(transition))

\* a paused transition moves only by resume (or is given up)
C8_Stays ==
    (pc = "idle" /\ isPaused(M)
       /\ call'.op \notin {"resume", "cancel", "end", "reset", "do", "go"})
        => /\ transition' = transition
           /\ state' = state
           /\ PhasesOf(log') = <<>>

\* resume() of a paused transition, undisturbed, has returned
C8_Resumed ==
    /\ call.op = "resume" /\ pre.transition # Null /\ pc = "idle"
    /\ Undisturbed(Tail(log))

C8_Completes ==
    C8_Resumed =>
        /\ transition = Null
        /\ state = pre.transition.to
        /\ pre.transition.fired \o PhasesOf(log) = Lifecycle(pre.transition)
        /\ log = << <<"transition", "resume">> >> \o PhasesOf(log)
                     \o Closing(pre.transition.to)

\* C8: a pause() from a handler of a running phase stops the transition in
\* that phase: no later handler fires and the state does not advance until
\* resume(); after resume() the remaining dispatches run in the normal
\* order, each once overall, and the transition completes with state = to.
C8_PauseResume ==
    [] (C8_Paused /\ C8_Once /\ C8_Completes) /\ [][C8_Stays]_vars

\* paused by the handler of state.a.leave, resumed to completion in b
C8_Witness ==
    /\ C8_Resumed
    /\ pre.transition.fired = << <<"state", "a", "leave">> >>
    /\ state = "b"

-----------------------------------------------------------------------------
(* C9 *)

Count(e) == Cardinality({i \in 1..Len(log) : log[i] = e})

C9_HostReset ==
    call.op = "reset" =>
        /\ state = IF call.arg \in {Undefined, ""} THEN config.initial
                   ELSE call.arg
        /\ ~ isTransitioning(M) /\ ~ isPaused(M)
        /\ log = << <<"system", "reset">> >>

C9_HandlerReset ==
    (Drives /\ InLog(<<"system", "reset">>))
        => /\ state = config.initial
           /\ ~ isTransitioning(M) /\ ~ isPaused(M)
           /\ pc = "idle"
           /\ Count(<<"system", "reset">>) = 1
           /\ log[Len(log)] = <<"system", "reset">>
           /\ ~ InLog(<<"transition", "cancel">>)
           /\ ~ InLog(<<"transition", "end">>)
           /\ ~ InLog(<<"system", "change">>)

\* C9: reset(initial?) sets state to the supplied state, or to the
\* configured initial state, discards an in-flight transition without
\* firing its remaining handlers, transition.cancel, transition.end or
\* system.change, and fires system.reset once; afterwards the machine is
\* neither transitioning nor paused.
C9_ResetDiscards == C9_HostReset /\ C9_HandlerReset

\* a paused transition is discarded by reset("c")
C9_Witness ==
    /\ call.op = "reset" /\ call.arg = "c" /\ pre.transition # Null
    /\ state = "c"

-----------------------------------------------------------------------------
(* C10 *)

\* the do(action) just called ran a resolver that threw or returned a name
\* that is no declared state
C10_ResolverFailed ==
    /\ call.op = "do" /\ call.resolver # Undefined
    /\ (call.resolver = Throws \/ ~ has(call.resolver))

\* C10: when the resolver of the action throws or returns an undeclared
\* name, do(action) raises to the caller, state stays at the pre-transition
\* value, no transition is created (none is active after a do on an idle
\* machine) and no handler fires.
C10_ResolverFailureAborts ==
    C10_ResolverFailed =>
        /\ ret = "error"
        /\ pc = "idle"
        /\ state = pre.state
        /\ transition = pre.transition
        /\ pre.transition = Null => ~ isTransitioning(M)
        /\ log = <<>>

\* jump from a, the resolver returns the undeclared zz
C10_Witness ==
    /\ C10_ResolverFailed
    /\ call.arg = "jump" /\ call.resolver = "zz" /\ pre.transition = Null
    /\ state = "a"


-----------------------------------------------------------------------------
(* Compilation of shorthand rules *)

\* the rules in the tables, each as <<action, from, to>>
Rules == {<<k[1], k[2], actions[k]>> : k \in DOMAIN actions}

\* the machine was constructed from exactly the rule list evs
CompiledFrom(evs) == pc # "dead" /\ config.events = evs

\* a host do(action) that began in state s has run to its end
DoneFrom(action, s) ==
    /\ call.op = "do"
    /\ call.arg = action
    /\ pre.state = s
    /\ pc = "idle"
    /\ ret = "true"

\* C11: the chained shorthand "next : a > b > c" compiles to exactly the two
\* rules (next, a -> b) and (next, b -> c), one per adjacent pair, so that
\* do('next') leads from a to b and from b to c.
C11_ChainCompiles ==
    CompiledFrom(<< [str |-> Chain] >>)
        => /\ Rules = {<<"next", "a", "b">>, <<"next", "b", "c">>}
           /\ DoneFrom("next", "a") => state = "b"
           /\ DoneFrom("next", "b") => state = "c"

\* the two directed rules a bidirectional shorthand stands for
BothWaysRules ==
    IF config.events = << [str |-> BothWays] >>
    THEN {<<"back", "a", "b">>, <<"back", "b", "a">>}
    ELSE {<<"skip", "b", "c">>, <<"skip", "c", "b">>}

\* C12: a bidirectional shorthand "name: x - y" compiles to exactly the
\* rules (name, x -> y) and (name, y -> x): name is permitted from x and
\* from y and from no other state, and do(name) leads from x to y and from
\* y to x.
C12_BothWaysCompiles ==
    (CompiledFrom(<< [str |-> BothWays] >>)
         \/ CompiledFrom(<< [str |-> BothWays2] >>))
        => /\ Rules = BothWaysRules
           /\ \A s \in StateNames \cup {"", Undefined}, a \in ActionNames :
                  can([M EXCEPT !.state = s], a)
                      <=> \E r \in BothWaysRules : r[1] = a /\ r[2] = s
           /\ \A r \in BothWaysRules : DoneFrom(r[1], r[2]) => state = r[3]

\* a machine compiled from "back: a - b" has gone from a to b and back to a
C12_Witness ==
    /\ CompiledFrom(<< [str |-> BothWays] >>)
    /\ DoneFrom("back", "b")
    /\ state = "a"
    /\ Rules = {<<"back", "a", "b">>, <<"back", "b", "a">>}

-----------------------------------------------------------------------------
(* State discovery *)

\* the state names among l (not a resolver, not an absent field)
NamesOf(l) == SelectSeq(l, LAMBDA x : x # Undefined /\ x # Resolver)

\* l without the later occurrences of a value
FirstOccurrences(l) ==
    LET keep == {i \in 1..Len(l) : \A j \in 1..(i - 1) : l[j] # l[i]}
        nth(n) == CHOOSE i \in keep : Cardinality({j \in keep : j <= i}) = n
    IN  [n \in 1..Cardinality(keep) |-> l[nth(n)]]

NoDuplicates(l) == \A i, j \in 1..Len(l) : l[i] = l[j] => i = j

\* the from and to fields the rules carry, read rule by rule
FromThenToByRule ==
    [n \in 1..(2 * Len(config.events)) |->
        IF n % 2 = 1 THEN eventField(config.events[(n + 1) \div 2], "from")
        ELSE eventField(config.events[n \div 2], "to")]

\* the from fields of all rules, then the to fields of all rules
AllFromsThenAllTos ==
    [n \in 1..(2 * Len(config.events)) |->
        IF n <= Len(config.events)
        THEN eventField(config.events[n], "from")
        ELSE eventField(config.events[n - Len(config.events)], "to")]

\* C13 as stated: states has no duplicate and is in first-occurrence order
\* reading each rule's from then its to, rule by rule.
C13_OrderByRule ==
    pc # "dead"
        => /\ NoDuplicates(states)
           /\ states = FirstOccurrences(NamesOf(FromThenToByRule))

\* C13: states has no duplicate and is in first-occurrence order reading the
\* from field of every rule in rule order and then the to field of every
\* rule in rule order; a rule that carries no such name (a resolver target, a
\* shorthand string) adds none.
C13_FromsThenTos ==
    pc # "dead"
        => /\ NoDuplicates(states)
           /\ states = FirstOccurrences(NamesOf(AllFromsThenAllTos))

\* the rules a -> b, c -> d, b -> a gave the states a, c, b, d
C13_Witness ==
    /\ CompiledFrom(FourStatesBack)
    /\ states = <<"a", "c", "b", "d">>

\* C14: every from and to state a shorthand rule names is in states after
\* construction, exactly once, and has() is true of it.
C14_ShorthandStatesKnown ==
    (pc # "dead" /\ \E i \in 1..Len(config.events) : isString(config.events[i]))
        => \A r \in Rules : \A s \in {r[2], r[3]} :
               /\ has(s)
               /\ Cardinality({i \in 1..Len(states) : states[i] = s}) = 1

-----------------------------------------------------------------------------
(* The initial state *)

\* cfg is the configuration the machine was constructed with (initialize
\* fills in config.initial)
GivenAs(cfg) ==
    /\ [cfg EXCEPT !.initial = config.initial] = config
    /\ cfg.initial \in {Undefined, config.initial}

\* the first state the rule list names
FirstNamed(evs) ==
    IF isString(evs[1]) THEN shorthandMatch(evs[1].str).from ELSE evs[1].from

\* the state construction is to leave a started machine in
InitialOf(cfg) ==
    IF cfg.initial # Undefined THEN cfg.initial ELSE FirstNamed(cfg.events)

\* C15: without defer the state after construction is the explicit initial
\* state, or else the first state the rules name; with defer the state is
\* empty, isStarted() is false and every do() returns false, and reset() or
\* go(state) leave the machine started in a declared state.
C15_InitialState ==
    /\ (call.op = "new" /\ ret = "this" /\ ~ config.defer)
           => \A cfg \in CompileConfigs : GivenAs(cfg) => state = InitialOf(cfg)
    /\ (call.op = "new" /\ ret = "this" /\ config.defer)
           => state = "" /\ ~ isStarted(M)
    /\ (call.op = "do" /\ pre.state = "") => ret = "false"
    /\ (call.op = "reset" /\ call.arg = Undefined /\ pre.state = "")
           => isStarted(M) /\ has(state)
    /\ (call.op = "go" /\ pre.state = "" /\ has(call.arg) /\ pc = "idle")
           => ret = "true" /\ state = call.arg

\* C16: system.initialize is fired by construction if and only if the
\* machine is not deferred, and by no later operation.
C16_InitializeOnce ==
    /\ (call.op = "new" /\ ret = "this")
           => Count(<<"system", "initialize">>) = IF config.defer THEN 0 ELSE 1
    /\ call.op # "new" => ~ InLog(<<"system", "initialize">>)


-----------------------------------------------------------------------------
(* Handler ids *)

\* the machine as on() found it
PreFsm == [states |-> states, actions |-> actions, handlers |-> pre.handlers]

\* the host's last call was on(id, fn)
OnCalled(id) == call.op = "on" /\ call.arg = id

\* the callables the dispatches l invoke, given the registry
RECURSIVE InvokedBy(_)
InvokedBy(l) ==
    IF l = <<>> THEN <<>>
    ELSE (IF VMdefined(handlers, Head(l)) THEN handlers[Head(l)] ELSE <<>>)
             \o InvokedBy(Tail(l))

\* a state name that is not also a type of the alias table
PlainStates == {s \in StateNames : has(s) /\ s \notin DOMAIN eventLookup}

\* an action name some rule uses
KnownActions == {a \in ActionNames : VMhasAction(actions, a)}

C18_AtActionIsStart ==
    \A a \in KnownActions :
        (OnCalled(<<"@", a>>) /\ isFunction(call.fn))
            => /\ handlers = VMinsert(pre.handlers,
                                      <<"action", a, "start">>, call.fn)
               /\ handlers = on(PreFsm, <<"action", ".", "start", ":", a>>,
                                call.fn).handlers

\* the id matches the pattern but has no family prefix, no type of the alias
\* table, and names no state and no action
Unresolvable(id) ==
    /\ idMatches(id)
    /\ ~ idHasFamily(id)
    /\ idParse(id).type \notin DOMAIN eventLookup
    /\ ~ has(idParse(id).type)
    /\ idParse(id).type \notin KnownActions

\* C19: on(id, fn) with an id that resolves to no family attaches nothing:
\* the registry is as it was before the call, nothing is raised, and since a
\* dispatch invokes exactly the callables registered at its path, fn is not
\* invoked on account of that call.
C19_UnresolvedRejected ==
    /\ (call.op = "on" /\ Unresolvable(call.arg))
           => handlers = pre.handlers /\ ret = "undefined"
    /\ invoked = InvokedBy(log)
    /\ \A i \in 1..Len(invoked) :
           \E k \in DOMAIN handlers : \E j \in 1..Len(handlers[k]) :
               handlers[k][j] = invoked[i]

\* on("blah", fn) with a callable returned and left a filled registry as it was
C19_Witness ==
    /\ OnCalled(<<"blah">>)
    /\ isFunction(call.fn)
    /\ ret = "undefined"
    /\ handlers = pre.handlers
    /\ Registered(handlers) > 0

\* the values of the handlers map that are lists
ListEntries ==
    IF "handlers" \in DOMAIN config
    THEN {i \in 1..Len(config.handlers) : config.handlers[i].fn.kind = "array"}
    ELSE {}

\* C20: registering a value that is not callable raises and leaves the
\* registry as it was before the call, through on() for every id that
\* resolves and through the handlers map; an entry of the handlers map whose
\* value is a list of callables registers every callable of the list.
C20_NonCallableFails ==
    /\ (call.op = "on" /\ idMatches(call.arg) /\ ~ Unresolvable(call.arg)
            /\ ~ isFunction(call.fn))
           => ret = "error" /\ handlers = pre.handlers
    /\ (call.op = "new" /\ "handlers" \in DOMAIN config
            /\ \E i \in 1..Len(config.handlers) :
                   config.handlers[i].fn = NotFn)
           => ret = "error"
    /\ (call.op = "new" /\ ListEntries # {})
           => /\ ret = "this"
              /\ \A i \in ListEntries :
                     \A n \in 1..Len(config.handlers[i].fn.items) :
                         \E k \in DOMAIN handlers : \E j \in 1..Len(handlers[k]) :
                             handlers[k][j] = config.handlers[i].fn.items[n]


-----------------------------------------------------------------------------
(* The handler registry *)

\* the last element of a non-empty sequence
Last(l) == l[Len(l)]

\* the registry after on(): every list it had is a prefix of the list now at
\* that path, and a list grew by at most the callable of the call
Appended ==
    /\ \A k \in DOMAIN pre.handlers :
           /\ k \in DOMAIN handlers
           /\ IsPrefix(pre.handlers[k], handlers[k])
    /\ \A k \in DOMAIN handlers :
           LET before == IF k \in DOMAIN pre.handlers
                         THEN pre.handlers[k] ELSE <<>>
           IN  handlers[k] \in {before, Append(before, call.fn)}

\* the callables registered at a wildcard path only
OnlyAtWildcard ==
    {f \in HandlerValues :
        /\ \E k \in DOMAIN handlers :
               k[2] = "*" /\ \E j \in 1..Len(handlers[k]) : handlers[k][j] = f
        /\ \A k \in DOMAIN handlers :
               k[2] # "*" => \A j \in 1..Len(handlers[k]) : handlers[k][j] # f}

\* C21: registration appends to the list at the path and never overwrites;
\* the dispatches of a call invoke exactly the callables registered at their
\* paths, once per registration and in registration order, none when the
\* path has no list; a callable registered at a wildcard path only is not
\* invoked when only literal paths were dispatched.
C21_DispatchExact ==
    /\ call.op = "on" => Appended
    /\ invoked = InvokedBy(log)
    /\ \A i \in 1..Len(log) :
           ~ VMdefined(handlers, log[i])
               => InvokedBy(SubSeq(log, 1, i)) = InvokedBy(SubSeq(log, 1, i - 1))
    /\ (\A i \in 1..Len(log) : Len(log[i]) = 3 => log[i][2] # "*")
           => \A f \in OnlyAtWildcard, i \in 1..Len(invoked) : invoked[i] # f

\* state.a.leave has just been dispatched: its handler g ran, the handler f
\* of state.*.leave did not
C21_Witness ==
    /\ log # <<>>
    /\ Last(log) = <<"state", "a", "leave">>
    /\ VMdefined(handlers, <<"state", "a", "leave">>)
    /\ VMdefined(handlers, <<"state", "*", "leave">>)
    /\ handlers[<<"state", "a", "leave">>] = <<Fn("g")>>
    /\ handlers[<<"state", "*", "leave">>] = <<Fn("f")>>
    /\ invoked = <<Fn("g")>>
    /\ pc = "exec"

-----------------------------------------------------------------------------
(* resume, and the commands on an idle machine *)

\* C22: resume() acts only on a paused transition: transition.resume is
\* fired only as the first notification of a resume() that found the
\* transition paused, and the dispatches of a transition stay a prefix of
\* the normal order, none advanced or run again.
C22_ResumeOnlyPaused ==
    /\ \A i \in 1..Len(log) :
           log[i] = <<"transition", "resume">>
               => /\ i = 1
                  /\ call.op = "resume"
                  /\ pre.transition # Null
                  /\ pre.transition.paused
    /\ transition # Null => IsPrefix(transition.fired, Lifecycle(transition))

\* C23: the state is empty or a member of states, whatever calls were made.
C23_StateDeclared == state = "" \/ has(state)

\* C24: pause(), resume(), cancel() and end() called while no transition is
\* active change neither the state nor the transition and fire nothing.
C24_IdleNoOps ==
    (call.op \in {"pause", "resume", "cancel", "end"} /\ pre.transition = Null)
        => /\ state = pre.state
           /\ transition = Null
           /\ log = <<>>
           /\ invoked = <<>>
           /\ pc = "idle"
           /\ ret = "this"

\* end() was called on an idle machine in its final state
C24_Witness ==
    /\ call.op = "end"
    /\ pre.transition = Null
    /\ state = config.final
    /\ log = <<>>

====
